---- MODULE Spec2Model ----
(***************************************************************************)
(* Model of src/src/tools.ts: the adapter between an MCP client and        *)
(* LangChain structured tools.                                             *)
(*                                                                         *)
(*   _embeddedResourceToArtifact   resolve one embedded resource block     *)
(*   _convertCallToolResult        CallToolResult -> [content, artifacts]  *)
(*   _callTool                     one remote call, errors wrapped         *)
(*   loadMcpTools                  the tool catalog of one server          *)
(*                                                                         *)
(* JavaScript strings are sequences of tokens, so that concatenation,      *)
(* join and template literals are computed and not assumed.  The value     *)
(* undefined is the one-token sequence Undefined.                          *)
(***************************************************************************)
EXTENDS Integers, Sequences, FiniteSets, TLC

\* Longest content array of a CallToolResult.
MaxBlocks == 3
\* Most resource blocks in one content array.
MaxResources == 2
\* Longest tools array of a listTools response.
MaxTools == 3

Undefined == <<"<undefined>">>

\* JavaScript truthiness of a value that is a string or undefined.
Truthy(v) == v # Undefined /\ v # <<>>

serverName == <<"srv">>

ToolNames == {<<"add">>, <<"sub">>}

----------------------------------------------------------------------------
(* Content blocks a server can send.                                       *)

TextContent(t) == [type |-> "text", text |-> t]

ImageContent(m, d) == [type |-> "image", mimeType |-> m, data |-> d]

EmbeddedResource(u, b, t, ru) ==
    [type |-> "resource", uri |-> u, blob |-> b, text |-> t,
     resource |-> [uri |-> ru]]

\* A block of a kind the adapter does not know (the protocol also has audio).
AudioContent == [type |-> "audio", mimeType |-> <<"audio/wav">>, data |-> <<"UklG">>]

TextBlocks == {TextContent(<<"5">>), TextContent(<<"x">>)}

ImageBlocks == {ImageContent(<<"image/png">>, <<"QQ==">>)}

ResourceBlocks ==
    { EmbeddedResource(<<"file:a">>, Undefined, Undefined, <<"res:a">>),
      EmbeddedResource(<<"file:c">>, Undefined, <<"inline">>, <<"res:c">>),
      EmbeddedResource(<<"file:d">>, <<"AAEC">>, Undefined, <<"res:d">>),
      EmbeddedResource(Undefined, Undefined, Undefined, <<"res:e">>),
      EmbeddedResource(<<"file:f">>, Undefined, <<>>, <<"res:f">>),
      EmbeddedResource(<<>>, Undefined, Undefined, <<"res:g">>) }

Blocks == TextBlocks \cup ImageBlocks \cup ResourceBlocks \cup {AudioContent}

Contents ==
    {c \in UNION {[1..n -> Blocks] : n \in 0..MaxBlocks} :
        Cardinality({i \in DOMAIN c : c[i].type = "resource"}) <= MaxResources}

\* A missing result (undefined or null).
NoResult == [present |-> FALSE]

\* typeof of a content that is not an array.
NonArrayTypes == {"undefined", "string", "object"}

Results ==
    {NoResult}
    \cup {[present |-> TRUE, isArray |-> FALSE, typeof |-> t, content |-> <<>>,
           isError |-> e] : t \in NonArrayTypes, e \in BOOLEAN}
    \cup {[present |-> TRUE, isArray |-> TRUE, typeof |-> "object", content |-> c,
           isError |-> e] : c \in Contents, e \in BOOLEAN}

\* Parts of a ReadResourceResult.
TextPart == [uri |-> <<"res:1">>, text |-> <<"one">>]

BlobPart == [uri |-> <<"res:2">>, blob |-> <<"Mg==">>]

\* The contents of a ReadResourceResult: no part, one, or several.
ReadResponses == {<<>>, <<TextPart>>, <<TextPart, BlobPart>>, <<BlobPart, TextPart>>}

\* Errors the client can raise: a plain Error, or a ToolException thrown below.
ToolException(message) == [class |-> "ToolException", message |-> message]

ClientErrors == {[class |-> "Error", message |-> <<"boom">>],
                 ToolException(<<"inner">>)}

\* String(error) of an Error: "<name>: <message>".
String(error) == <<error.class, ": ">> \o error.message

----------------------------------------------------------------------------
(* Array helpers.                                                          *)

\* content.text of any block: undefined where the block has no text field.
TextOf(content) == IF "text" \in DOMAIN content THEN content.text ELSE Undefined

RECURSIVE joinDefined(_, _)
\* A join that leaves out the undefined elements and their separators.
joinDefined(arr, sep) ==
    LET defined == SelectSeq(arr, LAMBDA v : v # Undefined)
    IN  IF Len(defined) = 0 THEN <<>>
        ELSE IF Len(defined) = 1 THEN defined[1]
        ELSE defined[1] \o sep \o joinDefined(Tail(defined), sep)

RECURSIVE join(_, _)
\* Array.prototype.join: undefined elements are converted to the empty string.
join(arr, sep) ==
    IF Len(arr) = 0 THEN <<>>
    ELSE LET head == IF arr[1] = Undefined THEN <<>> ELSE arr[1]
         IN  IF Len(arr) = 1 THEN head ELSE head \o sep \o join(Tail(arr), sep)

RECURSIVE flat(_)
\* Array.prototype.flat of an array of arrays.
flat(arrs) == IF Len(arrs) = 0 THEN <<>> ELSE arrs[1] \o flat(Tail(arrs))

IsTextOrImage(content) == content.type = "text" \/ content.type = "image"

IsResource(content) == content.type = "resource"

----------------------------------------------------------------------------
(* _embeddedResourceToArtifact                                             *)

\* The text of the block is not looked at.
NeedsReadIgnoringText(resource) == ~Truthy(resource.blob) /\ Truthy(resource.uri)

\* The guard of the read: no blob, no text, and a uri, all by truthiness, and
\* all read from the block itself.
NeedsRead(resource) ==
    ~Truthy(resource.blob) /\ ~Truthy(resource.text) /\ Truthy(resource.uri)

\* The request passed to client.readResource.
ReadRequest(resource) == [uri |-> resource.resource.uri]

\* response.contents.map(content => ({type: "resource", resource: {...content}}))
Rewrap(contents) ==
    [i \in 1..Len(contents) |-> [type |-> "resource", resource |-> contents[i]]]

----------------------------------------------------------------------------
(* _convertCallToolResult                                                  *)

Prefix(toolName) ==
    <<"MCP tool '">> \o toolName \o <<"' on server '">> \o serverName \o <<"' ">>

UndefinedResultError(toolName) ==
    ToolException(Prefix(toolName)
        \o <<"returned an invalid result - tool call response was undefined">>)

NotArrayError(toolName, result) ==
    ToolException(Prefix(toolName)
        \o <<"returned an invalid result - expected an array of content, but was ">>
        \o <<result.typeof>>)

\* result.content.map(content => content.text).join("\n")
ErrorText(content) == join([i \in 1..Len(content) |-> TextOf(content[i])], <<"\n">>)

IsErrorError(toolName, result) ==
    ToolException(Prefix(toolName) \o <<"returned an error: ">>
        \o ErrorText(result.content))

UnknownKindError(toolName, content) ==
    ToolException(Prefix(toolName)
        \o <<"returned an invalid result - expected a text or image content, but was ">>
        \o <<content.type>>)

\* The three checks made before any block is looked at, first failure first.
\* NoError when all pass.
NoError == [class |-> "none"]

\* isError is looked at before the content is known to be an array.
ValidateIsErrorFirst(toolName, result) ==
    IF ~result.present THEN UndefinedResultError(toolName)
    ELSE IF result.isError THEN IsErrorError(toolName, result)
    ELSE IF ~result.isArray THEN NotArrayError(toolName, result)
    ELSE NoError

Validate(toolName, result) ==
    IF ~result.present THEN UndefinedResultError(toolName)
    ELSE IF ~result.isArray THEN NotArrayError(toolName, result)
    ELSE IF result.isError THEN IsErrorError(toolName, result)
    ELSE NoError

\* The blocks the switch is applied to.
TextAndImageBlocks(result) == SelectSeq(result.content, IsTextOrImage)

\* One case of the switch; its default case throws.
Classify(content) ==
    CASE content.type = "text" -> [type |-> "text", text |-> content.text]
      [] content.type = "image" ->
            [type |-> "image_url",
             image_url |-> [url |-> <<"data:">> \o content.mimeType
                                     \o <<";base64,">> \o content.data]]
      [] OTHER -> [type |-> "throw"]

\* The first block on which the switch throws, 0 when there is none.
FirstUnclassified(blocks) ==
    IF \E i \in 1..Len(blocks) : Classify(blocks[i]).type = "throw"
    THEN CHOOSE i \in 1..Len(blocks) :
            /\ Classify(blocks[i]).type = "throw"
            /\ \A j \in 1..(i - 1) : Classify(blocks[j]).type # "throw"
    ELSE 0

mcpTextAndImageContent(result) ==
    LET blocks == TextAndImageBlocks(result)
    IN  [i \in 1..Len(blocks) |-> Classify(blocks[i])]

\* The resource blocks, in the order of the content.
ResourceContent(result) == SelectSeq(result.content, IsResource)

\* The fragments are never unwrapped.
PrimaryContentNeverString(fragments) == [typeof |-> "array", value |-> fragments]

\* The first fragment is unwrapped whenever it is a text, whatever follows it.
PrimaryContentFirstText(fragments) ==
    IF Len(fragments) >= 1 /\ fragments[1].type = "text"
    THEN [typeof |-> "string", value |-> fragments[1].text]
    ELSE [typeof |-> "array", value |-> fragments]

\* What the converter returns as its first element: the text of a lone text
\* fragment (a string), else the fragments (an array).
PrimaryContent(fragments) ==
    IF Len(fragments) = 1 /\ fragments[1].type = "text"
    THEN [typeof |-> "string", value |-> fragments[1].text]
    ELSE [typeof |-> "array", value |-> fragments]

\* The values in the order the promises settled.
PromiseAllAsSettled(promises, order) ==
    [k \in 1..Len(order) |-> promises[order[k]].value]

\* The value Promise.all resolves to: one entry per promise, by position.
PromiseAll(promises, order) == [i \in 1..Len(promises) |-> promises[i].value]

Return(content, artifacts) ==
    [kind |-> "return", content |-> content, artifacts |-> artifacts]

Throw(error) == [kind |-> "throw", error |-> error]

Pending == [kind |-> "pending"]

----------------------------------------------------------------------------
(* loadMcpTools: what the server advertises, and the schema converter.     *)

ObjectSchema == <<"{type: object, properties: {a, b}}">>

\* A schema JSONSchemaToZod.convert throws on.
BadSchema == <<"{type: 42}">>

\* The schema used when a tool declares none.
DefaultSchema == <<"{type: object, properties: {}}">>

MCPTool(name, description, inputSchema) ==
    [name |-> name, description |-> description, inputSchema |-> inputSchema]

Descriptors ==
    {MCPTool(n, <<"does it">>, sch) :
        n \in ToolNames \cup {<<>>, Undefined},
        sch \in {ObjectSchema, BadSchema, Undefined}}
    \cup {MCPTool(<<"add">>, Undefined, ObjectSchema)}

\* A listTools response without a tools field.
NoTools == [hasTools |-> FALSE, tools |-> <<>>]

ListResponses ==
    {NoTools} \cup {[hasTools |-> TRUE, tools |-> t] :
                        t \in UNION {[1..n -> Descriptors] : n \in 0..MaxTools}}

\* JSONSchemaToZod.convert throws on a schema it cannot parse.
ConvertThrows(schema) == schema = BadSchema

ConvertError(schema) == [class |-> "Error", message |-> <<"cannot parse ">> \o schema]

\* The argument of JSONSchemaToZod.convert: tool.inputSchema ?? {empty object}.
SchemaOf(tool) ==
    IF tool.inputSchema = Undefined THEN DefaultSchema ELSE tool.inputSchema

\* Only an absent name is filtered out; an empty one passes.
HasNameDefined(tool) == tool.name # Undefined

\* The filter on names: !!tool.name.
HasName(tool) == Truthy(tool.name)

\* new DynamicStructuredTool({...}), with _callTool bound to its first three
\* arguments.
DynamicStructuredTool(tool) ==
    [name |-> tool.name,
     description |-> IF Truthy(tool.description) THEN tool.description ELSE <<>>,
     schema |-> <<"zod">> \o SchemaOf(tool),
     responseFormat |-> "content_and_artifact",
     func |-> [serverName |-> serverName, toolName |-> tool.name]]

\* The catch block never rethrows.
RethrowsNever(strict) == FALSE

\* Whether the catch block rethrows.
Rethrows(strict) == strict

\* What the map callback gives for a tool whose construction threw, when it
\* does not rethrow; the last filter drops it.
Null == [name |-> Undefined]

RECURSIVE MapTools(_, _)
\* The map over the named tools, left to right, up to its first rethrow:
\* the items it produced, the schemas it converted, and what it threw.
MapTools(tools, strict) ==
    IF Len(tools) = 0
    THEN [thrown |-> FALSE, items |-> <<>>, converted |-> <<>>]
    ELSE LET tool == Head(tools)
             entry == [name |-> tool.name, schema |-> SchemaOf(tool)]
         IN  IF ConvertThrows(SchemaOf(tool)) /\ Rethrows(strict)
             THEN [thrown |-> TRUE, error |-> ConvertError(SchemaOf(tool)),
                   items |-> <<>>, converted |-> <<entry>>]
             ELSE LET rest == MapTools(Tail(tools), strict)
                      item == IF ConvertThrows(SchemaOf(tool)) THEN Null
                              ELSE DynamicStructuredTool(tool)
                  IN  [rest EXCEPT !.items = IF rest.thrown THEN <<>> ELSE <<item>> \o @,
                                   !.converted = <<entry>> \o @]

\* .filter(Boolean)
NotNull(item) == item # Null

----------------------------------------------------------------------------
VARIABLES
    pc,           \* where the invocation is: idle, calling, reading, done
    toolName,     \* the tool name bound into _callTool
    callLog,      \* the callTool requests sent, in order
    callError,    \* the error client.callTool rejected with
    result,       \* the CallToolResult received
    readLog,      \* the readResource requests sent, in order, with their promise
    promises,     \* one promise per resource block, by position
    settled,      \* the positions of the promises, in the order they settled
    replies,      \* the readResource responses received, in order of arrival
    outcome,      \* what the invocation gave its caller
    loadPc,       \* where the load is: idle, listing, done
    throwOnLoadError,
    listLog,      \* the number of listTools requests sent
    listed,       \* the listTools response received
    convertLog,   \* the tool descriptors whose schema was converted, in order
    loadOutcome   \* what loadMcpTools gave its caller

callVars ==
    <<pc, toolName, callLog, callError, result, readLog, promises, settled, replies,
      outcome>>

loadVars == <<loadPc, throwOnLoadError, listLog, listed, convertLog, loadOutcome>>

vars == <<callVars, loadVars>>

Arguments == {[a |-> 2, b |-> 3]}

Init ==
    /\ pc = "idle"
    /\ toolName \in ToolNames
    /\ callLog = <<>>
    /\ callError = NoError
    /\ result = NoResult
    /\ readLog = <<>>
    /\ promises = <<>>
    /\ settled = <<>>
    /\ replies = <<>>
    /\ outcome = Pending
    /\ loadPc = "idle"
    /\ throwOnLoadError = TRUE
    /\ listLog = 0
    /\ listed = NoTools
    /\ convertLog = <<>>
    /\ loadOutcome = Pending

----------------------------------------------------------------------------
(* _callTool                                                               *)

\* The tool is invoked: the callTool request leaves.
CallTool(args) ==
    /\ pc = "idle"
    /\ pc' = "calling"
    /\ callLog' = Append(callLog, [name |-> toolName, arguments |-> args])
    /\ UNCHANGED <<toolName, callError, result, readLog, promises, settled, replies,
                   outcome, loadVars>>

\* Every error is wrapped, the layer's own included.
CallToolCatchAlwaysWraps(error) ==
    ToolException(<<"Error calling tool ">> \o toolName \o <<": ">> \o String(error))

\* What the catch block throws for an error of client.callTool.
CallToolCatch(error) ==
    IF error.class = "ToolException" THEN error
    ELSE ToolException(<<"Error calling tool ">> \o toolName \o <<": ">>
                       \o String(error))

\* client.callTool rejects.
CallToolRejects(error) ==
    /\ pc = "calling"
    /\ pc' = "done"
    /\ callError' = error
    /\ outcome' = Throw(CallToolCatch(error))
    /\ UNCHANGED <<toolName, callLog, result, readLog, promises, settled, replies,
                   loadVars>>

\* The promise _embeddedResourceToArtifact returns when it is called: pending
\* on a read, or already resolved to the block itself.
StartResolve(resource) ==
    IF NeedsRead(resource)
    THEN [state |-> "pending", value |-> <<>>]
    ELSE [state |-> "fulfilled", value |-> <<resource>>]

AllFulfilled(ps) == \A i \in 1..Len(ps) : ps[i].state = "fulfilled"

\* The value the converter returns once every promise is fulfilled.
Converted(res, ps, order) ==
    Return(PrimaryContent(mcpTextAndImageContent(res)), flat(PromiseAll(ps, order)))

RECURSIVE ReadsStarted(_, _)
\* The read requests of the resource blocks from position i on, in order.
ReadsStarted(resources, i) ==
    IF i > Len(resources) THEN <<>>
    ELSE (IF NeedsRead(resources[i])
          THEN <<[request |-> ReadRequest(resources[i]), promise |-> i]>>
          ELSE <<>>) \o ReadsStarted(resources, i + 1)

\* client.callTool resolves with res: the converter runs up to its await.
CallToolReturns(res) ==
    /\ pc = "calling"
    /\ result' = res
    /\ LET error == Validate(toolName, res)
       IN  IF error # NoError
           THEN /\ pc' = "done"
                /\ outcome' = Throw(error)
                /\ UNCHANGED <<readLog, promises, settled>>
           ELSE LET unknown == FirstUnclassified(TextAndImageBlocks(res))
                    resources == ResourceContent(res)
                    ps == [i \in 1..Len(resources) |-> StartResolve(resources[i])]
                    now == SelectSeq([i \in 1..Len(ps) |-> i],
                                     LAMBDA i : ps[i].state = "fulfilled")
                IN  IF unknown # 0
                    THEN /\ pc' = "done"
                         /\ outcome' = Throw(UnknownKindError(toolName,
                                            TextAndImageBlocks(res)[unknown]))
                         /\ UNCHANGED <<readLog, promises, settled>>
                    ELSE /\ promises' = ps
                         /\ settled' = now
                         /\ readLog' = ReadsStarted(resources, 1)
                         /\ IF AllFulfilled(ps)
                            THEN /\ pc' = "done"
                                 /\ outcome' = Converted(res, ps, now)
                            ELSE /\ pc' = "reading"
                                 /\ UNCHANGED outcome
    /\ UNCHANGED <<toolName, callLog, callError, replies, loadVars>>

\* One client.readResource resolves.  When it was the last one pending,
\* Promise.all resolves and the converter returns.
ReadResourceReturns(i, response) ==
    /\ pc \in {"reading", "done"}
    /\ i \in 1..Len(promises)
    /\ promises[i].state = "pending"
    /\ LET ps == [promises EXCEPT ![i] = [state |-> "fulfilled",
                                          value |-> Rewrap(response)]]
           order == Append(settled, i)
       IN  /\ promises' = ps
           /\ settled' = order
           /\ IF pc = "reading" /\ AllFulfilled(ps)
              THEN /\ pc' = "done"
                   /\ outcome' = Converted(result, ps, order)
              ELSE UNCHANGED <<pc, outcome>>
    /\ replies' = Append(replies, [promise |-> i, contents |-> response])
    /\ UNCHANGED <<toolName, callLog, callError, result, readLog, loadVars>>

\* One client.readResource rejects.  Promise.all rejects with the first
\* rejection, and nothing between it and the caller catches.
ReadResourceRejects(i, error) ==
    /\ pc \in {"reading", "done"}
    /\ i \in 1..Len(promises)
    /\ promises[i].state = "pending"
    /\ promises' = [promises EXCEPT ![i] = [state |-> "rejected", value |-> <<>>]]
    /\ settled' = Append(settled, i)
    /\ IF pc = "reading"
       THEN /\ pc' = "done"
            /\ outcome' = Throw(error)
       ELSE UNCHANGED <<pc, outcome>>
    /\ UNCHANGED <<toolName, callLog, callError, result, readLog, replies, loadVars>>

----------------------------------------------------------------------------
(* loadMcpTools                                                            *)

\* loadMcpTools is called: the listTools request leaves.
LoadMcpTools(strict) ==
    /\ loadPc = "idle"
    /\ loadPc' = "listing"
    /\ throwOnLoadError' = strict
    /\ listLog' = listLog + 1
    /\ UNCHANGED <<listed, convertLog, loadOutcome, callVars>>

\* client.listTools rejects: nothing catches.
ListToolsRejects(error) ==
    /\ loadPc = "listing"
    /\ loadPc' = "done"
    /\ loadOutcome' = Throw(error)
    /\ UNCHANGED <<throwOnLoadError, listLog, listed, convertLog, callVars>>

\* client.listTools resolves: filter, map, filter, in one synchronous run.
ListToolsReturns(toolsResponse) ==
    /\ loadPc = "listing"
    /\ loadPc' = "done"
    /\ listed' = toolsResponse
    /\ LET tools == IF toolsResponse.hasTools THEN toolsResponse.tools ELSE <<>>
           mapped == MapTools(SelectSeq(tools, HasName), throwOnLoadError)
       IN  /\ convertLog' = mapped.converted
           /\ loadOutcome' = IF mapped.thrown THEN Throw(mapped.error)
                             ELSE [kind |-> "return",
                                   tools |-> SelectSeq(mapped.items, NotNull)]
    /\ UNCHANGED <<throwOnLoadError, listLog, callVars>>

NextLoad ==
    \/ loadPc = "idle" /\ \E strict \in BOOLEAN : LoadMcpTools(strict)
    \/ loadPc = "listing" /\ \E error \in ClientErrors : ListToolsRejects(error)
    \/ loadPc = "listing" /\ \E toolsResponse \in ListResponses :
            ListToolsReturns(toolsResponse)

SpecLoad == Init /\ [][NextLoad]_vars

\* The inputs are drawn only where the step can happen.
Next ==
    \/ pc = "idle" /\ \E args \in Arguments : CallTool(args)
    \/ pc = "calling" /\ \E error \in ClientErrors : CallToolRejects(error)
    \/ pc = "calling" /\ \E res \in Results : CallToolReturns(res)
    \/ \E i \in 1..Len(promises), response \in ReadResponses :
            ReadResourceReturns(i, response)
    \/ \E i \in 1..Len(promises), error \in ClientErrors :
            ReadResourceRejects(i, error)

Spec == Init /\ [][Next]_vars

----------------------------------------------------------------------------
(* Properties of the conversion of a result.                               *)

\* The converter got a result it accepts: present, an array, not an error.
Accepted == result.present /\ result.isArray /\ ~result.isError

\* The number of blocks of the result whose kind is one of kinds.
CountKinds(kinds) ==
    Cardinality({i \in DOMAIN result.content : result.content[i].type \in kinds})

RECURSIVE FragmentsOf(_)
\* The fragments of a content, block by block: a text as {type: text, text},
\* an image as {type: image_url, image_url: {url: data URI}}, nothing else.
FragmentsOf(content) ==
    IF content = <<>> THEN <<>>
    ELSE LET b == Head(content)
         IN  (CASE b.type = "text" -> <<[type |-> "text", text |-> b.text]>>
                [] b.type = "image" ->
                     <<[type |-> "image_url",
                        image_url |-> [url |-> <<"data:", b.mimeType[1], ";base64,",
                                                 b.data[1]>>]]>>
                [] OTHER -> <<>>)
             \o FragmentsOf(Tail(content))

\* C1: when the result is not an error and holds exactly one text block and no
\* image or resource block, the invocation returns that block's text as a bare
\* string (not a fragment, not a sequence) and an empty artifact sequence.
C1_LoneTextIsBareString ==
    (pc = "done" /\ Accepted /\ CountKinds({"text"}) = 1
        /\ CountKinds({"image", "resource"}) = 0)
    => \E i \in DOMAIN result.content :
          /\ result.content[i].type = "text"
          /\ outcome = [kind |-> "return",
                        content |-> [typeof |-> "string",
                                     value |-> result.content[i].text],
                        artifacts |-> <<>>]

\* C1 happens: the tool answered {content: [{type: text, text: "5"}]} and the
\* caller got ("5", []).
C1_Witness ==
    /\ pc = "done" /\ Accepted
    /\ result.content = <<[type |-> "text", text |-> <<"5">>]>>
    /\ outcome.kind = "return"
    /\ outcome.content = [typeof |-> "string", value |-> <<"5">>]
    /\ outcome.artifacts = <<>>

\* C2 as stated: when the result is not an error and holds zero blocks or more
\* than one block of any kinds, the primary content returned is the sequence
\* of fragments and never a bare string.
C2_NotOneBlockIsSequence ==
    (outcome.kind = "return" /\ Accepted /\ Len(result.content) # 1)
    => outcome.content = [typeof |-> "array", value |-> FragmentsOf(result.content)]

\* C2 as amended: when the result is not an error and its text and image blocks
\* together number zero or more than one (resource blocks are not counted),
\* the primary content returned is the ordered sequence of fragments and never
\* a bare string.
C2_NotOneFragmentIsSequence ==
    (outcome.kind = "return" /\ Accepted /\ CountKinds({"text", "image"}) # 1)
    => outcome.content = [typeof |-> "array", value |-> FragmentsOf(result.content)]

\* C2 happens: two texts around an image come back as three fragments in order.
C2_Witness ==
    /\ outcome.kind = "return" /\ Accepted
    /\ Len(result.content) = 3
    /\ result.content[1].type = "text" /\ result.content[2].type = "image"
    /\ result.content[3].type = "text" /\ result.content[1] # result.content[3]
    /\ outcome.content.typeof = "array"
    /\ Len(outcome.content.value) = 3
    /\ outcome.content.value[2].type = "image_url"

\* The block carries a text (an empty one counts).
HasText(b) == "text" \in DOMAIN b /\ b.text # <<"<undefined>">>

RECURSIVE MessageOfTexts(_, _)
\* The first n of the texts with a newline between every two neighbours,
\* built from the left.
MessageOfTexts(texts, n) ==
    IF n = 0 THEN <<>>
    ELSE IF n = 1 THEN texts[1]
    ELSE MessageOfTexts(texts, n - 1) \o <<"\n">> \o texts[n]

\* The message of the error for an isError result whose joined text is text.
UpstreamError(text) ==
    [kind |-> "throw",
     error |-> [class |-> "ToolException",
                message |-> <<"MCP tool '", toolName[1], "' on server '", "srv",
                              "' ", "returned an error: ">> \o text]]

\* C3 as stated: an isError result fails with the upstream-tool error whose
\* message is the texts of the blocks joined by newlines, a block without text
\* contributing nothing (neither text nor newline).
C3_ErrorJoinsOnlyTexts ==
    (pc = "done" /\ result.present /\ result.isArray /\ result.isError)
    => LET having == SelectSeq(result.content, HasText)
           texts == [i \in 1..Len(having) |-> having[i].text]
       IN  outcome = UpstreamError(MessageOfTexts(texts, Len(texts)))

\* C3 as amended: an isError result fails with the upstream-tool error whose
\* message is one entry per block joined by newlines, the entry of a block
\* without text being the empty string (its newline stays); no block gives
\* the empty message.
C3_ErrorJoinsEveryBlock ==
    (pc = "done" /\ result.present /\ result.isArray /\ result.isError)
    => LET texts == [i \in 1..Len(result.content) |->
                        IF HasText(result.content[i])
                        THEN result.content[i].text ELSE <<>>]
       IN  outcome = UpstreamError(MessageOfTexts(texts, Len(texts)))

\* C3 happens: an image before a text gives a message starting with a newline.
C3_Witness ==
    /\ pc = "done" /\ result.present /\ result.isArray /\ result.isError
    /\ Len(result.content) = 2
    /\ result.content[1].type = "image" /\ result.content[2].type = "text"
    /\ outcome = UpstreamError(<<"\n">> \o result.content[2].text)

----------------------------------------------------------------------------
(* Properties of the resolution of resource blocks.                        *)

\* The resource blocks of the result, in content order.
ResourcesOf(content) == SelectSeq(content, LAMBDA b : b.type = "resource")

\* The field is there, whatever it holds.
Carries(v) == v # <<"<undefined>">>

\* The field is there and is not the empty string.
NonEmpty(v) == v # <<"<undefined>">> /\ v # <<>>

\* A reference by presence: a uri, and neither blob nor text.
ReferenceByPresence(b) == Carries(b.uri) /\ ~Carries(b.blob) /\ ~Carries(b.text)

\* A reference by content: a non-empty uri, and no non-empty blob or text.
ReferenceByContent(b) == NonEmpty(b.uri) /\ ~NonEmpty(b.blob) /\ ~NonEmpty(b.text)

\* Once the converter has accepted the result: one read request, with the
\* block's resource.uri, for every resource block that IsReference holds of
\* and none for any other, which resolves to the block itself; and every
\* read answered resolves to the parts of the answer, each wrapped as a
\* resource block, in the order of the answer.
ResolvesBy(IsReference(_)) ==
    (pc \in {"reading", "done"} /\ Accepted)
    => LET rs == ResourcesOf(result.content)
       IN  /\ Len(promises) = Len(rs)
           /\ \A i \in 1..Len(rs) :
                LET reads == {k \in DOMAIN readLog : readLog[k].promise = i}
                IN  IF IsReference(rs[i])
                    THEN /\ Cardinality(reads) = 1
                         /\ \A k \in reads :
                              readLog[k].request = [uri |-> rs[i].resource.uri]
                    ELSE /\ reads = {}
                         /\ promises[i] = [state |-> "fulfilled", value |-> <<rs[i]>>]
           /\ \A k \in DOMAIN replies :
                LET parts == replies[k].contents
                IN  promises[replies[k].promise] =
                        [state |-> "fulfilled",
                         value |-> [j \in 1..Len(parts) |->
                                       [type |-> "resource", resource |-> parts[j]]]]

\* C4 as stated: the resolver reads exactly when the block carries a uri and
\* neither blob nor text; then it sends one readResource with resource.uri and
\* gives the answer's parts re-wrapped in order; otherwise it sends nothing and
\* gives the block unchanged.
C4_ReadsExactlyReferences == ResolvesBy(ReferenceByPresence)

\* C4 as amended: the same, a uri, blob or text that is the empty string
\* counting as not carried.
C4_ReadsExactlyEmptyPayloads == ResolvesBy(ReferenceByContent)

\* C4 happens: of two resource blocks, the inline one resolved to itself with
\* no read and the reference was read once and resolved to two parts.
C4_Witness ==
    /\ pc = "done" /\ Accepted /\ outcome.kind = "return"
    /\ Len(promises) = 2 /\ Len(readLog) = 1 /\ Len(replies) = 1
    /\ readLog[1].promise = 2
    /\ replies[1].contents = <<[uri |-> <<"res:2">>, blob |-> <<"Mg==">>],
                               [uri |-> <<"res:1">>, text |-> <<"one">>]>>
    /\ Truthy(ResourcesOf(result.content)[1].text)
    /\ Len(promises[1].value) = 1 /\ Len(promises[2].value) = 2

----------------------------------------------------------------------------
(* Properties of _callTool.                                                *)

\* C5: one callTool request per invocation; an error of callTool reaches the
\* caller wrapped as "Error calling tool <name>: <cause>", except the layer's
\* own error, which reaches it unchanged; and after a successful callTool the
\* caller gets what the converter gave or threw, unwrapped.
C5_CallToolOnceAndWrapped ==
    /\ Len(callLog) = (IF pc = "idle" THEN 0 ELSE 1)
    /\ \A k \in DOMAIN callLog : callLog[k].name = toolName
    /\ (callError # [class |-> "none"]) =>
          /\ pc = "done" /\ readLog = <<>>
          /\ outcome.kind = "throw"
          /\ IF callError.class = "ToolException"
             THEN outcome.error = callError
             ELSE outcome.error =
                    [class |-> "ToolException",
                     message |-> <<"Error calling tool ", toolName[1], ": ",
                                   callError.class, ": ">> \o callError.message]
    /\ (pc = "done" /\ callError = [class |-> "none"] /\ outcome.kind = "throw") =>
          \/ outcome.error = Validate(toolName, result)
          \/ /\ Accepted
             /\ \E i \in DOMAIN promises : promises[i].state = "rejected"
             /\ outcome.error \in ClientErrors
    /\ (pc = "done" /\ callError = [class |-> "none"] /\ outcome.kind = "return") =>
          /\ Accepted
          /\ \A i \in DOMAIN promises : promises[i].state = "fulfilled"

\* C5 happens: callTool failed with a plain Error and the caller got it
\* wrapped.
C5_Witness ==
    /\ pc = "done" /\ callError = [class |-> "Error", message |-> <<"boom">>]
    /\ outcome.kind = "throw"
    /\ outcome.error.class = "ToolException"
    /\ outcome.error.message =
          <<"Error calling tool ", toolName[1], ": ", "Error", ": ", "boom">>

\* C6 as stated: whatever step failed, the error the caller of an invocation
\* gets is one of the layer's own.
C6_EveryErrorIsTyped ==
    outcome.kind = "throw" => outcome.error.class = "ToolException"


\* C8 as stated: a result that is not an error and holds a block whose kind is
\* none of text, image and resource makes the invocation fail with the
\* layer's error naming the server, the tool and the kind.
C8_UnknownKindFails ==
    (pc = "done" /\ Accepted
        /\ \E i \in DOMAIN result.content :
              result.content[i].type \notin {"text", "image", "resource"})
    => /\ outcome.kind = "throw"
       /\ outcome.error.class = "ToolException"
       /\ \E i \in DOMAIN result.content :
            /\ result.content[i].type \notin {"text", "image", "resource"}
            /\ outcome.error.message =
                 <<"MCP tool '", toolName[1], "' on server '", "srv", "' ",
                   "returned an invalid result - expected a text or image content, but was ",
                   result.content[i].type>>

RECURSIVE Concat(_, _)
\* The first n of the sequences seqs, one after the other.
Concat(seqs, n) == IF n = 0 THEN <<>> ELSE Concat(seqs, n - 1) \o seqs[n]

\* The answer received for the read of promise i.
ReplyTo(i) == replies[CHOOSE k \in DOMAIN replies : replies[k].promise = i].contents

\* C10: every read of a result is sent before any of them is answered, and the
\* artifacts returned are, whatever the order of the answers, the resource
\* blocks in content order, each reference replaced by the parts of its own
\* answer.
C10_ArtifactsInBlockOrder ==
    /\ (pc = "reading" \/ settled # <<>> \/ replies # <<>>) =>
          Len(readLog) = Cardinality({i \in DOMAIN promises :
                            \/ promises[i].state # "fulfilled"
                            \/ \E k \in DOMAIN replies : replies[k].promise = i})
    /\ \A k \in DOMAIN readLog : readLog[k].promise \in DOMAIN promises
    /\ (pc = "done" /\ Accepted /\ outcome.kind = "return") =>
          LET rs == ResourcesOf(result.content)
              each == [i \in 1..Len(rs) |->
                         IF \E k \in DOMAIN readLog : readLog[k].promise = i
                         THEN [j \in 1..Len(ReplyTo(i)) |->
                                 [type |-> "resource", resource |-> ReplyTo(i)[j]]]
                         ELSE <<rs[i]>>]
          IN  outcome.artifacts = Concat(each, Len(rs))

\* C10 happens: two reads were sent, the second was answered first with
\* another answer than the first, and the artifacts came back in block order.
C10_Witness ==
    /\ pc = "done" /\ Accepted /\ outcome.kind = "return"
    /\ Len(readLog) = 2 /\ Len(replies) = 2
    /\ replies[1].promise = 2 /\ replies[2].promise = 1
    /\ replies[1].contents = <<[uri |-> <<"res:1">>, text |-> <<"one">>]>>
    /\ replies[2].contents = <<[uri |-> <<"res:2">>, blob |-> <<"Mg==">>],
                               [uri |-> <<"res:1">>, text |-> <<"one">>]>>
    /\ Len(outcome.artifacts) = 3
    /\ outcome.artifacts[3].resource = [uri |-> <<"res:1">>, text |-> <<"one">>]
    /\ outcome.artifacts[1].resource = [uri |-> <<"res:2">>, blob |-> <<"Mg==">>]

----------------------------------------------------------------------------
(* Properties of loadMcpTools.                                             *)

\* The tools of the listTools response received.
Advertised == IF listed.hasTools THEN listed.tools ELSE <<>>

\* The descriptor has a name that is not empty.
Named(tool) == tool.name # <<"<undefined>">> /\ tool.name # <<>>

\* Construction of the tool fails: its schema is the unparseable one.
Unbuildable(tool) == tool.inputSchema = <<"{type: 42}">>

\* The client answered the listTools request of the load.
Loaded == loadPc = "done" /\ \/ loadOutcome.kind = "return"
                             \/ loadOutcome.error \notin ClientErrors

\* C7: when the construction of a named tool fails, a strict load throws that
\* error and returns no tool; a lenient load throws nothing and returns the
\* tools that could be built, in advertised order, the failed ones left out.
C7_StrictAllOrNothingLenientSkips ==
    Loaded =>
       LET named == SelectSeq(Advertised, Named)
           built == SelectSeq(named, LAMBDA t : ~Unbuildable(t))
       IN  IF throwOnLoadError /\ Len(built) # Len(named)
           THEN /\ loadOutcome.kind = "throw"
                /\ loadOutcome.error.class = "Error"
                /\ DOMAIN loadOutcome = {"kind", "error"}
           ELSE /\ loadOutcome.kind = "return"
                /\ Len(loadOutcome.tools) = Len(built)
                /\ \A i \in 1..Len(built) :
                     /\ loadOutcome.tools[i].name = built[i].name
                     /\ loadOutcome.tools[i].func =
                          [serverName |-> <<"srv">>, toolName |-> built[i].name]
                     /\ loadOutcome.tools[i].schema =
                          <<"zod">> \o (IF built[i].inputSchema = <<"<undefined>">>
                                        THEN <<"{type: object, properties: {}}">>
                                        ELSE built[i].inputSchema)

\* Three named tools are advertised and the schema of the second alone is
\* unparseable.
OneOfThreeUnbuildable ==
    /\ Loaded /\ Len(Advertised) = 3
    /\ \A i \in 1..3 : Named(Advertised[i])
    /\ Unbuildable(Advertised[2])
    /\ ~Unbuildable(Advertised[1]) /\ ~Unbuildable(Advertised[3])
    /\ Advertised[1].name # Advertised[3].name

\* C7 happens: of three tools with one unparseable schema a lenient load
\* returned the two others.
C7_Witness ==
    /\ OneOfThreeUnbuildable /\ ~throwOnLoadError
    /\ loadOutcome.kind = "return"
    /\ Len(loadOutcome.tools) = 2
    /\ loadOutcome.tools[1].name = Advertised[1].name
    /\ loadOutcome.tools[2].name = Advertised[3].name

\* C7 happens under the strict policy too: the same three tools gave an error
\* and no tool.
C7_WitnessStrict ==
    /\ OneOfThreeUnbuildable /\ throwOnLoadError
    /\ loadOutcome.kind = "throw"

\* C9: a descriptor whose name is empty or absent is left out of the catalog
\* with no error under either policy and without its schema being converted;
\* each makes the catalog one shorter and leaves the others and their order
\* alone; and a load sends one listTools request.
C9_UnnamedToolsDropped ==
    /\ listLog = (IF loadPc = "idle" THEN 0 ELSE 1)
    /\ Loaded =>
         LET named == SelectSeq(Advertised, Named)
             unnamed == {i \in DOMAIN Advertised : ~Named(Advertised[i])}
             failed == {i \in DOMAIN Advertised :
                          Named(Advertised[i]) /\ Unbuildable(Advertised[i])}
         IN  /\ \A k \in DOMAIN convertLog : Named(convertLog[k])
             /\ Len(convertLog) <= Len(named)
             /\ \A k \in DOMAIN convertLog : convertLog[k].name = named[k].name
             /\ loadOutcome.kind = "throw" => failed # {}
             /\ loadOutcome.kind = "return" =>
                  /\ Len(loadOutcome.tools) =
                        Len(Advertised) - Cardinality(unnamed) - Cardinality(failed)
                  /\ \A k \in DOMAIN loadOutcome.tools : Named(loadOutcome.tools[k])
                  /\ LET kept == SelectSeq(named, LAMBDA t : ~Unbuildable(t))
                     IN  \A k \in DOMAIN loadOutcome.tools :
                            loadOutcome.tools[k].name = kept[k].name

\* C9 happens: a strict load of a tool, an unnamed descriptor with an
\* unparseable schema, a tool and an empty-named descriptor returned the one
\* tool, and one schema was converted.
C9_Witness ==
    /\ Loaded /\ throwOnLoadError /\ Len(Advertised) = 3
    /\ Advertised[1].name = <<"<undefined>">> /\ Unbuildable(Advertised[1])
    /\ Advertised[2].name = <<"sub">>
    /\ Advertised[3].name = <<>>
    /\ loadOutcome.kind = "return"
    /\ Len(loadOutcome.tools) = 1
    /\ loadOutcome.tools[1].name = <<"sub">>
    /\ Len(convertLog) = 1


----------------------------------------------------------------------------
(* Properties of the order of validation.                                  *)

\* client.callTool resolved and the converter has run up to its first await.
Answered == pc \in {"reading", "done"} /\ callError = [class |-> "none"]

\* The error of the layer whose message is the usual prefix followed by rest.
LayerError(rest) ==
    [kind |-> "throw",
     error |-> [class |-> "ToolException",
                message |-> <<"MCP tool '", toolName[1], "' on server '", "srv",
                              "' ">> \o rest]]

\* C11: the converter fails on the first violation in a fixed order.  A
\* missing result gives the invalid-result error; else a content that is no
\* sequence gives the invalid-result error naming its type, isError or not;
\* else isError gives the upstream-tool error before any block is classified,
\* also when the result holds blocks of unknown kind or reference-only
\* resource blocks, and no readResource request is sent in any of the three.
C11_FirstViolationWins ==
    Answered =>
       IF ~result.present
       THEN /\ outcome = LayerError(
                  <<"returned an invalid result - tool call response was undefined">>)
            /\ readLog = <<>> /\ promises = <<>> /\ pc = "done"
       ELSE IF ~result.isArray
       THEN /\ outcome = LayerError(
                  <<"returned an invalid result - expected an array of content, but was ",
                    result.typeof>>)
            /\ readLog = <<>> /\ promises = <<>> /\ pc = "done"
       ELSE result.isError =>
            /\ outcome.kind = "throw"
            /\ outcome.error.class = "ToolException"
            /\ Len(outcome.error.message) >= 6
            /\ SubSeq(outcome.error.message, 1, 6) =
                  <<"MCP tool '", toolName[1], "' on server '", "srv", "' ",
                    "returned an error: ">>
            /\ readLog = <<>> /\ promises = <<>> /\ pc = "done"

\* C11 happens: an isError result holding a block of unknown kind and a
\* reference-only resource block failed with the upstream-tool error and no
\* read was sent.
C11_Witness ==
    /\ Answered /\ result.present /\ result.isArray /\ result.isError
    /\ Len(result.content) = 2
    /\ result.content[1].type = "audio"
    /\ result.content[2] = [type |-> "resource", uri |-> <<"file:a">>,
                            blob |-> <<"<undefined>">>, text |-> <<"<undefined>">>,
                            resource |-> [uri |-> <<"res:a">>]]
    /\ outcome = LayerError(<<"returned an error: ", "\n">>)
    /\ readLog = <<>>

\* C11 happens for a content that is no sequence too: a string content with
\* isError set failed with the invalid-result error naming "string".
C11_WitnessNotArray ==
    /\ Answered /\ result.present /\ ~result.isArray /\ result.isError
    /\ result.typeof = "string"
    /\ outcome = LayerError(
          <<"returned an invalid result - expected an array of content, but was ",
            "string">>)

====
